---- MODULE Spec2Model ----
(***************************************************************************)
(* ptypy/core/data.py: DataScan (load, save, unload_data) run by `size`    *)
(* MPI processes over one source.  Python lists are sequences whose        *)
(* element i (0-based) is at position i+1; an exception is recorded in     *)
(* err and ends the process that raised it.                                *)
(***************************************************************************)
EXTENDS Integers, Sequences, FiniteSets, TLC

VARIABLES size, shape, source, exists, ds, pc, err, call, loadargs, trace, bar, file,
          agg

vars == <<size, shape, source, exists, ds, pc, err, call, loadargs, trace, bar, file, agg>>

\* ---------------------------------------------------------------- bounds
MaxFrames == 2
MaxWorkers == 2
FrameDim == 3
MaxList == 2
MaxSources == 2
MaxCalls == 2
MaxRoi == 4
MaxCtr == 5
RecursionLimit == 6
MaxSlice == 3

\* ---------------------------------------------------------------- values
Min(a, b) == IF a < b THEN a ELSE b
Max(a, b) == IF a < b THEN b ELSE a

\* Python's None where an integer is expected (last, roidim, roictr).
NoInt == -1

\* An array: nd its rank (0 for None), fr the contents of its frames, r and c
\* the row and column windows [lo, hi) it covers of the stored frame.
None == [nd |-> 0, fr |-> <<>>, r |-> <<0, 0>>, c |-> <<0, 0>>]

Full == <<0, FrameDim>>

Array3(frames) == [nd |-> 3, fr |-> frames, r |-> Full, c |-> Full]

Array2(frame) == [nd |-> 2, fr |-> <<frame>>, r |-> Full, c |-> Full]

\* len(a) and a.shape of an array.
Length(a) == IF a.nd = 3 THEN Len(a.fr) ELSE a.r[2] - a.r[1]

Shape(a) ==
  IF a.nd = 3 THEN <<Len(a.fr), a.r[2] - a.r[1], a.c[2] - a.c[1]>>
  ELSE <<a.r[2] - a.r[1], a.c[2] - a.c[1]>>

\* a[k] of a 3-D array, k in range.
FrameOf(a, k) == [nd |-> 2, fr |-> <<a.fr[k + 1]>>, r |-> a.r, c |-> a.c]

\* range(a, b) as a list.
range(a, b) == [k \in 1..Max(b - a, 0) |-> a + k - 1]

\* ---------------------------------------------------------------- slices
\* One component of a slice tuple: slice(None), slice(a, b) or a tuple of
\* frame indices.
SliceAll == [kind |-> "all", a |-> 0, b |-> 0, idx |-> <<>>]
SliceRange(a, b) == [kind |-> "range", a |-> a, b |-> b, idx |-> <<>>]
SliceList(l) == [kind |-> "list", a |-> 0, b |-> 0, idx |-> l]

\* slice(a, b).indices(n): the bounds Python clips a slice to.
Clip(a, n) == IF a < 0 THEN Max(a + n, 0) ELSE Min(a, n)

\* A window [lo, hi) cut by one slice component.
CutWindow(w, s) ==
  CASE s.kind = "all" -> w
    [] s.kind = "range" ->
         LET n == w[2] - w[1]
             lo == Clip(s.a, n)
             hi == Max(Clip(s.b, n), lo)
         IN <<w[1] + lo, w[1] + hi>>

\* The frame axis cut by one slice component; a frame index past the end is
\* an IndexError.
CutFramesFails(fr, s) ==
  s.kind = "list" /\ \E k \in 1..Len(s.idx) : s.idx[k] >= Len(fr)

CutFrames(fr, s) ==
  CASE s.kind = "all" -> fr
    [] s.kind = "range" ->
         LET lo == Clip(s.a, Len(fr))
             hi == Max(Clip(s.b, Len(fr)), lo)
         IN SubSeq(fr, lo + 1, hi)
    [] s.kind = "list" -> [k \in 1..Len(s.idx) |-> fr[s.idx[k] + 1]]

Comp(slc, j) == IF j <= Len(slc) THEN slc[j] ELSE SliceAll

\* a[slc] of numpy: more components than axes is an IndexError.
IndexFails(a, slc) ==
  \/ Len(slc) > a.nd
  \/ a.nd = 3 /\ CutFramesFails(a.fr, Comp(slc, 1))

Index(a, slc) ==
  IF a.nd = 3
  THEN [nd |-> 3, fr |-> CutFrames(a.fr, Comp(slc, 1)),
        r |-> CutWindow(a.r, Comp(slc, 2)), c |-> CutWindow(a.c, Comp(slc, 3))]
  ELSE [nd |-> 2, fr |-> a.fr,
        r |-> CutWindow(a.r, Comp(slc, 1)), c |-> CutWindow(a.c, Comp(slc, 2))]

\* ---------------------------------------------------------------- source
Keys == {"data", "mask", "fmask", "dark", "flat"}

\* A value that is no array (a number, a list of numbers): nd 1.
NoArray == [nd |-> 1, fr |-> <<>>, r |-> Full, c |-> Full]

\* What a keyed source holds under key: nothing (source[key] = 0), a value
\* that is no array (1), one 2-D frame, or a stack of shape[0] frames; frame i
\* of key is <<key, i>>.
Stored(src, n, key) ==
  CASE src[key] = 3 -> Array3([k \in 1..n |-> <<key, k - 1>>])
    [] src[key] = 2 -> Array2(<<key, -1>>)
    [] src[key] = 1 -> NoArray
    [] src[key] = 0 -> None

\* The loader set_source attaches: for source None ones (flat, mask) or zeros
\* of scan_info.shape, otherwise the keyed read of the source.
getitem(a, slc) ==
  IF a.nd = 1 THEN [exc |-> "TypeError", val |-> None]
  ELSE IF IndexFails(a, slc) THEN [exc |-> "IndexError", val |-> None]
  ELSE [exc |-> "none", val |-> Index(a, slc)]

buf(n, key) ==
  Array3([k \in 1..n |-> IF key \in {"flat", "mask"} THEN <<"ones", 0>> ELSE <<"zeros", 0>>])

loader(src, n, key, slc) ==
  IF src.kind = "None" THEN getitem(buf(n, key), slc)
  ELSE IF src[key] = 0 THEN [exc |-> "KeyError", val |-> None]
  ELSE getitem(Stored(src, n, key), slc)

\* Mutant: slc[2:], two components dropped at once.
Tail1_two(s) == IF Len(s) < 2 THEN <<>> ELSE Tail(Tail(s))

\* slc[1:] of a slice tuple.
Tail1(s) == IF s = <<>> THEN <<>> ELSE Tail(s)

\* probe_n_load(key, slc, altkey): the array, or None, with one trace record
\* per loader attempt.  altkey "" is None.  depth counts the nested calls:
\* the interpreter ends a recursion of RecursionLimit calls with a
\* RuntimeError, which no handler of probe_n_load catches.
RECURSIVE probe_n_load(_, _, _, _, _, _)
RECURSIVE probe_except(_, _, _, _, _, _, _)

\* One loader attempt in the trace, and the trace of a retry after it.
Attempt(key, slc, out) == [key |-> key, slc |-> slc, out |-> out]

After(rec, b) == [val |-> b.val, log |-> <<rec>> \o b.log, exc |-> b.exc]

probe_n_load(src, n, key, slc, altkey, depth) ==
  IF key = "" THEN [val |-> None, log |-> <<>>, exc |-> "none"]
  ELSE IF depth >= RecursionLimit THEN [val |-> None, log |-> <<>>, exc |-> "RuntimeError"]
  ELSE probe_except(src, n, key, slc, altkey, depth, loader(src, n, key, slc))

\* probe_n_load, lines 296-310: a is what the loader gave or raised.
probe_except(src, n, key, slc, altkey, depth, a) ==
  CASE a.exc = "none" ->
         [val |-> a.val, log |-> <<Attempt(key, slc, a.exc)>>, exc |-> "none"]
    [] a.exc \in {"IndexError", "TypeError"} ->
         After(Attempt(key, slc, a.exc),
               probe_n_load(src, n, key, Tail1(slc), "", depth + 1))
    [] a.exc = "KeyError" ->
         IF altkey = ""
         THEN [val |-> None, log |-> <<Attempt(key, slc, a.exc)>>, exc |-> "none"]
         ELSE After(Attempt(key, slc, a.exc),
                    probe_n_load(src, n, altkey, slc, "", depth + 1))

\* ---------------------------------------------------------------- parallel
\* parallel.loadmanager.assign(idlist): for every rank the positions of idlist
\* it owns, the list cut into `sz` blocks in list order, the remainder going
\* to the earliest blocks.
assign(idlist, sz) ==
  LET n == Len(idlist)
      q == n \div sz
      m == n % sz
      start(rk) == rk * q + Min(rk, m)
      count(rk) == q + (IF rk < m THEN 1 ELSE 0)
  IN [p \in 1..sz |-> range(start(p - 1), start(p - 1) + count(p - 1))]

\* parallel.MPIenabled and parallel.master.
MPIenabled == size > 1

master(rank) == rank = 0

\* ---------------------------------------------------------------- DataScan
\* DataScan.__init__: no array, empty per-frame lists, indices None (<<>>);
\* Nframes, frame_slice and asize are set by load only.  attrs tells whether
\* the array attributes exist (unload_data deletes them).
SliceUnset == [kind |-> "unset", a |-> 0, b |-> 0, idx |-> <<>>]
SliceNone == [kind |-> "None", a |-> 0, b |-> 0, idx |-> <<>>]

DataScan ==
  [data |-> None, mask |-> None, flat |-> None, dark |-> None,
   datalist |-> <<>>, masklist |-> <<>>, flatlist |-> <<>>, darklist |-> <<>>,
   indices |-> <<>>, Nframes |-> NoInt, frame_slice |-> SliceUnset,
   asize |-> <<>>, attrs |-> TRUE]

\* Mutant: x / 2. rounded down.
CeilHalf_floor(x) == x \div 2

\* ceil(x / 2.) for an integer x.
CeilHalf(x) == -((-x) \div 2)

\* load, lines 227-229: last and Nframes.
LastOf(last) == IF last = NoInt THEN shape[1] ELSE last

\* load, line 241: the identity list handed to the assigner.
idlist(first, last) == [k \in 1..Max(last - first, 0) |-> <<"Scan", first + k - 1>>]

\* Mutant: every rank takes the first block of the assignment.
IndicesOf_rank0(rank, first, last, MPIsplit) ==
  CASE MPIsplit.mode = "False" -> range(first, last)
    [] MPIsplit.mode = "True" -> assign(idlist(first, last), size)[1]
    [] MPIsplit.mode = "list" -> MPIsplit.list

\* load, lines 235-253: the indices this rank reads.
IndicesOf(rank, first, last, MPIsplit) ==
  CASE MPIsplit.mode = "False" -> range(first, last)
    [] MPIsplit.mode = "True" -> assign(idlist(first, last), size)[rank + 1]
    [] MPIsplit.mode = "list" -> MPIsplit.list

\* load, lines 238, 248, 253: the frame slice.
FrameSliceOf(indices, MPIsplit) ==
  CASE MPIsplit.mode = "False" -> SliceAll
    [] MPIsplit.mode = "True" -> SliceRange(indices[1], indices[Len(indices)] + 1)
    [] MPIsplit.mode = "list" -> SliceNone

\* load, lines 261-280: the region of interest, centred on the frame's centre
\* when roictr is None.
RoiCtrOf(roictr) == IF roictr = <<>> THEN <<shape[2] \div 2, shape[3] \div 2>> ELSE roictr

RoiStart(ctr, dim) == CeilHalf(2 * ctr - dim)

RoiEnd(ctr, dim) == CeilHalf(2 * ctr + dim)

roislice(roidim, roictr) ==
  IF roidim = <<>> THEN <<SliceAll, SliceAll>>
  ELSE LET ctr == RoiCtrOf(roictr)
       IN <<SliceRange(RoiStart(ctr[1], roidim[1]), RoiEnd(ctr[1], roidim[1])),
            SliceRange(RoiStart(ctr[2], roidim[2]), RoiEnd(ctr[2], roidim[2]))>>

asizeOf(roidim) == IF roidim = <<>> THEN <<shape[2], shape[3]>> ELSE roidim

\* load, lines 283-288: the slice tuple handed to the loader.
SliceTuple(frame_slice, indices, roi) ==
  IF frame_slice.kind # "None" THEN <<frame_slice>> \o roi
  ELSE <<SliceList(indices)>> \o roi

Absent(n) == [k \in 1..Max(n, 0) |-> None]

Put(list, i, v) == [list EXCEPT ![i + 1] = v]

\* load, lines 355-359: one turn of the loop, for the k-th (0-based) index i.
\* The first statement that raises ends the loop with what was stored so far.
PopulateOne(d, k, i) ==
  IF d.data.nd = 0 THEN [d |-> d, err |-> "TypeError"]
  ELSE IF k >= Length(d.data) \/ i >= Len(d.datalist) THEN [d |-> d, err |-> "IndexError"]
  ELSE LET d1 == [d EXCEPT !.datalist = Put(d.datalist, i, FrameOf(d.data, k))]
       IN IF d.mask.nd = 0 THEN [d |-> d1, err |-> "AttributeError"]
          ELSE IF d.mask.nd # 2 /\ k >= Length(d.mask) THEN [d |-> d1, err |-> "IndexError"]
          ELSE [d |-> [d1 EXCEPT
                   !.masklist = Put(d.masklist, i,
                                    IF d.mask.nd = 2 THEN d.mask ELSE FrameOf(d.mask, k)),
                   !.flatlist = Put(d.flatlist, i, d.flat),
                   !.darklist = Put(d.darklist, i, d.dark)],
                err |-> "none"]

RECURSIVE Populate(_, _, _)
Populate(d, indices, k) ==
  IF k >= Len(indices) THEN [d |-> d, err |-> "none"]
  ELSE LET one == PopulateOne(d, k, indices[k + 1])
       IN IF one.err # "none" THEN one ELSE Populate(one.d, indices, k + 1)

\* load, lines 345-354: the arrays read and the fresh per-frame lists, stored
\* on the object.  A read that raises leaves what the reads before it stored.
Store(d, pd, pm, pk, pf, Nframes) ==
  CASE pd.exc # "none" -> [d |-> d, err |-> pd.exc, log |-> pd.log]
    [] pd.exc = "none" /\ pm.exc # "none" ->
         [d |-> [d EXCEPT !.data = pd.val], err |-> pm.exc, log |-> pd.log \o pm.log]
    [] pd.exc = "none" /\ pm.exc = "none" /\ pk.exc # "none" ->
         [d |-> [d EXCEPT !.data = pd.val, !.mask = pm.val], err |-> pk.exc,
          log |-> pd.log \o pm.log \o pk.log]
    [] pd.exc = "none" /\ pm.exc = "none" /\ pk.exc = "none" /\ pf.exc # "none" ->
         [d |-> [d EXCEPT !.data = pd.val, !.mask = pm.val, !.dark = pk.val],
          err |-> pf.exc, log |-> pd.log \o pm.log \o pk.log \o pf.log]
    [] OTHER ->
         [d |-> [d EXCEPT !.data = pd.val, !.mask = pm.val, !.dark = pk.val,
                          !.flat = pf.val,
                          !.datalist = Absent(Nframes), !.masklist = Absent(Nframes),
                          !.flatlist = Absent(Nframes), !.darklist = Absent(Nframes),
                          !.attrs = TRUE],
          err |-> "none", log |-> pd.log \o pm.log \o pk.log \o pf.log]

\* Mutant: the mask is read without its alternate key.
ReadAll_noalt(d, sl, Nframes) ==
  Store(d, probe_n_load(source, shape[1], "data", sl, "", 0),
           probe_n_load(source, shape[1], "mask", sl, "", 0),
           probe_n_load(source, shape[1], "dark", sl, "", 0),
           probe_n_load(source, shape[1], "flat", sl, "", 0), Nframes)

\* load, lines 345-348: the four reads.
ReadAll(d, sl, Nframes) ==
  Store(d, probe_n_load(source, shape[1], "data", sl, "", 0),
           probe_n_load(source, shape[1], "mask", sl, "fmask", 0),
           probe_n_load(source, shape[1], "dark", sl, "", 0),
           probe_n_load(source, shape[1], "flat", sl, "", 0), Nframes)

\* load, lines 355-359: the loop over the rank's indices, after the reads rd.
PopulateAll(rd, indices) ==
  IF rd.err # "none" THEN [log |-> rd.log, res |-> [d |-> rd.d, err |-> rd.err]]
  ELSE [log |-> rd.log, res |-> Populate(rd.d, indices, 0)]

\* load, lines 255-359: the attributes, the slice tuple, the reads, the loop.
LoadSlice(d, a, Nframes, indices, frame_slice) ==
  PopulateAll(ReadAll([d EXCEPT !.indices = indices, !.Nframes = Nframes,
                                !.frame_slice = frame_slice, !.asize = asizeOf(a.roidim)],
                      SliceTuple(frame_slice, indices, roislice(a.roidim, a.roictr)),
                      Nframes),
              indices)

\* Mutant: the attributes of lines 255-257 are set before the range is
\* asserted.
LoadFrames_late(d, a, Nframes, indices) ==
  IF ~(Nframes > 0)
    THEN [log |-> <<>>,
          res |-> [d |-> [d EXCEPT !.indices = indices, !.Nframes = Nframes],
                   err |-> "AssertionError"]]
  ELSE IF a.MPIsplit.mode = "True" /\ indices = <<>>
    THEN [log |-> <<>>, res |-> [d |-> d, err |-> "IndexError"]]
  ELSE IF a.MPIsplit.mode = "True"
          /\ indices # range(indices[1], indices[Len(indices)] + 1)
    THEN [log |-> <<>>, res |-> [d |-> d, err |-> "AssertionError"]]
  ELSE LoadSlice(d, a, Nframes, indices, FrameSliceOf(indices, a.MPIsplit))

\* load, lines 229-253: the assertions on the range and on the assignment.
LoadFrames(d, a, Nframes, indices) ==
  IF ~(Nframes > 0) THEN [log |-> <<>>, res |-> [d |-> d, err |-> "AssertionError"]]
  ELSE IF a.MPIsplit.mode = "True" /\ indices = <<>>
    THEN [log |-> <<>>, res |-> [d |-> d, err |-> "IndexError"]]
  ELSE IF a.MPIsplit.mode = "True"
          /\ indices # range(indices[1], indices[Len(indices)] + 1)
    THEN [log |-> <<>>, res |-> [d |-> d, err |-> "AssertionError"]]
  ELSE LoadSlice(d, a, Nframes, indices, FrameSliceOf(indices, a.MPIsplit))

\* DataScan.load(first, last, roidim, roictr, MPIsplit) on `rank`: the trace
\* of the reads and, in res, the object it leaves and the exception it raises
\* ("none" when it returns).
load(d, rank, a) ==
  LoadFrames(d, a, LastOf(a.last) - a.first,
             IndicesOf(rank, a.first, LastOf(a.last), a.MPIsplit))

\* Mutant: unload_data leaves the arrays and the lists in place.
unload_data_keep(d) ==
  IF ~d.attrs THEN [d |-> d, err |-> "AttributeError"]
  ELSE [d |-> d, err |-> "none"]

\* unload_data: deletes the per-frame lists and the arrays; a second call
\* finds no attribute to delete.
unload_data(d) ==
  IF ~d.attrs THEN [d |-> d, err |-> "AttributeError"]
  ELSE [d |-> [d EXCEPT !.data = None, !.mask = None, !.flat = None, !.dark = None,
                        !.datalist = <<>>, !.masklist = <<>>, !.flatlist = <<>>,
                        !.darklist = <<>>, !.attrs = FALSE],
        err |-> "none"]

\* np.asarray of a per-frame list: the stack of its frames.
asarray(list) ==
  [nd |-> 3, fr |-> [k \in 1..Len(list) |-> IF list[k].nd = 0 THEN <<"None", 0>> ELSE list[k].fr[1]],
   r |-> IF list = <<>> THEN Full ELSE list[1].r,
   c |-> IF list = <<>> THEN Full ELSE list[1].c]

\* save, lines 388-402: the checks made before the gather loop.  The local
\* Nframes is bound only on the path that has just raised under MPI, so the
\* loop's range(Nframes) finds it unbound whenever MPI is enabled.
SaveChecks(d) ==
  IF ~d.attrs THEN "RuntimeError"
  ELSE IF d.data.nd = 0 THEN "TypeError"
  ELSE IF Length(d.data) # Len(d.datalist) /\ MPIenabled THEN "RuntimeError"
  ELSE IF MPIenabled THEN "UnboundLocalError"
  ELSE "none"

\* Mutant: the master always writes the stack of its per-frame list.
SaveData_fromlist(d) == asarray(d.datalist)

\* save, lines 442-448: what the master writes.
SaveData(d) == IF MPIenabled THEN asarray(d.datalist) ELSE d.data

SaveMask(d) == IF MPIenabled THEN asarray(d.masklist) ELSE d.mask

\* save, lines 462-470: the overwrite policy when the file exists; force is
\* "True", "False" or "None", ans is what the caller would type when asked.
\* `not force_overwrite` holds for False and for None, so the branch that
\* asks is reached by no value.
Refused(force, ans) ==
  /\ exists
  /\ CASE force = "True" -> FALSE
       [] force \in {"False", "None"} -> TRUE
       [] OTHER -> ans # "" /\ ans # "Y"

\* Mutant: the master writes without comparing the shapes.
SaveWrite_nocheck(d, force, ans) ==
  IF Refused(force, ans) THEN [err |-> "RuntimeError", file |-> file, exists |-> exists]
  ELSE [err |-> "none",
        file |-> [n |-> file.n + 1, data |-> SaveData(d), mask |-> SaveMask(d),
                  flat |-> d.flat, dark |-> d.dark],
        exists |-> TRUE]

\* save, lines 437-477, on the master: the sanity check, the overwrite policy
\* and the write.
SaveWrite(d, force, ans) ==
  IF Shape(SaveData(d)) # shape THEN [err |-> "RuntimeError", file |-> file, exists |-> exists]
  ELSE IF Refused(force, ans) THEN [err |-> "RuntimeError", file |-> file, exists |-> exists]
  ELSE [err |-> "none",
        file |-> [n |-> file.n + 1, data |-> SaveData(d), mask |-> SaveMask(d),
                  flat |-> d.flat, dark |-> d.dark],
        exists |-> TRUE]

\* DataScan.save(filename, force_overwrite) on `rank`, up to the barrier that
\* ends it (line 439 for the others, line 479 for the master).
save(d, rank, force, ans) ==
  IF SaveChecks(d) # "none" THEN [err |-> SaveChecks(d), file |-> file, exists |-> exists]
  ELSE IF rank > 0 THEN [err |-> "none", file |-> file, exists |-> exists]
  ELSE SaveWrite(d, force, ans)

\* as_data_package(start, stop): one entry per i in range(start, stop), stop
\* cut to the Nframes load has set; stop NoInt is None.  The scan_info holds a
\* position for every frame.
StopOf(d, stop) == IF stop = NoInt \/ stop > d.Nframes THEN d.Nframes ELSE stop

Entry(d, i) ==
  [data |-> d.datalist[i + 1], mask |-> d.masklist[i + 1], index |-> i,
   position |-> <<"position", i>>]

NoBatch == [err |-> "none", label |-> "", iterable |-> <<>>]

as_data_package(d, label, start, stop) ==
  IF d.Nframes = NoInt \/ ~d.attrs THEN [NoBatch EXCEPT !.err = "AttributeError"]
  ELSE IF \E i \in start..(StopOf(d, stop) - 1) : i >= Len(d.datalist)
    THEN [NoBatch EXCEPT !.err = "IndexError"]
  ELSE [err |-> "none", label |-> label,
        iterable |-> [k \in 1..Max(StopOf(d, stop) - start, 0) |->
                        Entry(d, start + k - 1)]]

\* ---------------------------------------------------------------- StaticDataSource
\* DS.label % {'idx': i}: the default template 'Scan%(idx)02d' gives ScanNN, a
\* label without a format field is left as it is.
ScanNN == <<"Scan00", "Scan01", "Scan02", "Scan03", "Scan04", "Scan05">>

Template == "Scan%(idx)02d"

Format(template, i) == IF template = Template THEN ScanNN[i + 1] ELSE template

Member(x, list) == \E k \in 1..Len(list) : list[k] = x

\* self.scans[label] = DS on a dictionary, kept as the list of its items: a
\* key already present keeps its place and takes the new value.  src is the
\* ordinal of the source the DataScan was made for.
SetItem(scans, label, i) ==
  IF \E k \in 1..Len(scans) : scans[k].label = label
  THEN [k \in 1..Len(scans) |->
          IF scans[k].label = label THEN [label |-> label, src |-> i] ELSE scans[k]]
  ELSE Append(scans, [label |-> label, src |-> i])

\* __init__, lines 535-537: the label of source i; recon "" is no entry in
\* recon_labels, or None.
LabelOf(src, i, labels) ==
  IF src.recon = "" \/ Member(src.recon, labels) THEN Format(src.scan_label, i)
  ELSE src.recon

\* __init__, lines 539-549: the uniqueness test (its message names an
\* undefined scan_label: NameError), the store and the frame count.
AddScan(st, label, i) ==
  IF Member(label, st.labels) THEN [st EXCEPT !.err = "NameError"]
  ELSE [st EXCEPT !.scans = SetItem(st.scans, label, i), !.Nframes = @ + shape[1]]

\* __init__, lines 525-549: the loop over the sources; self.labels is
\* created empty and nothing is appended to it.
RECURSIVE StaticDataSource(_, _, _)
StaticDataSource(sources, i, st) ==
  IF i >= Len(sources) \/ st.err # "none" THEN st
  ELSE StaticDataSource(sources, i + 1,
                        AddScan(st, LabelOf(sources[i + 1], i, st.labels), i))

NoScans == [scans |-> <<>>, labels |-> <<>>, Nframes |-> 0, err |-> "none"]

\* ---------------------------------------------------------------- inputs
Ranks == 0..(size - 1)

NoFile == [n |-> 0, data |-> None, mask |-> None, flat |-> None, dark |-> None]

NoErr == [exc |-> "none", op |-> ""]

\* The sources: None, and keyed sources (a dictionary or a file) holding the
\* keys as 3-D stacks, as single 2-D frames, or not at all.
Sources ==
  {[kind |-> "None", data |-> 3, mask |-> 3, fmask |-> 0, dark |-> 3, flat |-> 3]}
  \cup {[kind |-> "keyed", data |-> 3, mask |-> m[1], fmask |-> m[2], dark |-> 2, flat |-> 3] :
          m \in {<<3, 0>>, <<2, 0>>, <<0, 3>>, <<0, 2>>, <<0, 0>>, <<3, 2>>}}
  \cup {[kind |-> "keyed", data |-> 3, mask |-> 3, fmask |-> 0, dark |-> 0, flat |-> 0],
        [kind |-> "keyed", data |-> 3, mask |-> 0, fmask |-> 0, dark |-> 0, flat |-> 0],
        [kind |-> "keyed", data |-> 0, mask |-> 3, fmask |-> 0, dark |-> 0, flat |-> 2]}

\* MPIsplit: False, True, or a list of distinct frame indices.
Lists(n) ==
  {l \in UNION {[1..k -> 0..(n - 1)] : k \in 1..MaxList} :
     \A i, j \in 1..Len(l) : i # j => l[i] # l[j]}

Splits(n) ==
  {[mode |-> "False", list |-> <<>>], [mode |-> "True", list |-> <<>>]}
  \cup {[mode |-> "list", list |-> l] : l \in Lists(n)}

RoiDims == {<<>>, <<2, 1>>}

RoiCtrs == {<<>>, <<1, 2>>}

LoadArgs(n) ==
  {a \in [first : 0..(n - 1), last : {NoInt} \cup 1..(n - 1), roidim : RoiDims,
          roictr : RoiCtrs, MPIsplit : Splits(n)] :
     a.roidim = <<>> => a.roictr = <<>>}

\* save's force_overwrite, and the caller's answer should save ask.
SaveArgs ==
  {[force |-> "True", ans |-> ""], [force |-> "False", ans |-> ""],
   [force |-> "None", ans |-> "Y"], [force |-> "None", ans |-> "N"]}

NoArgs == [first |-> NoInt, last |-> NoInt, roidim |-> <<>>, roictr |-> <<>>,
           MPIsplit |-> [mode |-> "", list |-> <<>>]]

NoCall == [op |-> "init", force |-> "", ans |-> ""]

\* The sources handed to StaticDataSource: each with its entry of
\* recon_labels ("" for none) and the scan_label of its scan_info, the default
\* template or a plain name.  Every source holds a scan of scan_info.shape
\* `shape` with all its arrays.
SourceChoices == [recon : {"", "A"}, scan_label : {Template, "Scan01"}]

SourceLists == UNION {[1..k -> SourceChoices] : k \in 1..MaxSources}

FullSource == [kind |-> "keyed", data |-> 3, mask |-> 3, fmask |-> 0, dark |-> 2, flat |-> 3]

\* The orders in which a dictionary of n items can hand out its items.
Orders(n) == {o \in [1..n -> 1..n] : \A i, j \in 1..n : i # j => o[i] # o[j]}

\* DS.load(): the defaults of load.
DefaultLoad == [first |-> 0, last |-> NoInt, roidim |-> <<>>, roictr |-> <<>>,
                MPIsplit |-> [mode |-> "True", list |-> <<>>]]

\* No StaticDataSource yet.  Of a StaticDataSource: the dictionary scans and
\* the order it iterates in, Nframes, and for every process data_available
\* (avail), the DataScan of every item (DS), the place of the generator of
\* feed_data in its loop (it), the batch it made last (out) and the labels of
\* the batches its caller received (got).
NoAgg ==
  [kind |-> "none", sources |-> <<>>, scans |-> <<>>, Nframes |-> 0, order |-> <<>>,
   calls |-> 0, avail |-> [rk \in Ranks |-> FALSE], it |-> [rk \in Ranks |-> 0],
   DS |-> [rk \in Ranks |-> <<>>], out |-> [rk \in Ranks |-> NoBatch],
   got |-> [rk \in Ranks |-> <<>>]]

\* ---------------------------------------------------------------- behaviour
\* One DataScan per process, constructed over the same source; the file save
\* writes to does not exist yet.
Init ==
  /\ size \in 1..MaxWorkers
  /\ shape \in {<<n, FrameDim, FrameDim>> : n \in 1..MaxFrames}
  /\ source \in Sources
  /\ exists = FALSE
  /\ ds = [rk \in Ranks |-> DataScan]
  /\ pc = [rk \in Ranks |-> "idle"]
  /\ err = [rk \in Ranks |-> NoErr]
  /\ call = NoCall
  /\ loadargs = NoArgs
  /\ trace = [rk \in Ranks |-> <<>>]
  /\ bar = [rk \in Ranks |-> 0]
  /\ file = NoFile
  /\ agg = NoAgg

Quiet == /\ \A rk \in Ranks : pc[rk] \in {"idle", "raised"}
         /\ \E rk \in Ranks : pc[rk] = "idle"

Start(op) == [rk \in Ranks |-> IF pc[rk] = "idle" THEN op ELSE pc[rk]]

\* The program calls load on every process (the same call: the processes run
\* one script); a run repeats load with the arguments of its first load.
Callable == IF loadargs = NoArgs THEN LoadArgs(shape[1]) ELSE {loadargs}

CallLoad(a) ==
  /\ Quiet
  /\ loadargs' = a
  /\ call' = [op |-> "load", force |-> "", ans |-> ""]
  /\ pc' = Start("load")
  /\ bar' = [rk \in Ranks |-> 0]
  /\ UNCHANGED <<size, shape, source, exists, ds, err, trace, file, agg>>

CallSave(force, ans) ==
  /\ Quiet
  /\ call' = [op |-> "save", force |-> force, ans |-> ans]
  /\ pc' = Start("save")
  /\ bar' = [rk \in Ranks |-> 0]
  /\ file' = [file EXCEPT !.n = 0]
  /\ UNCHANGED <<size, shape, source, exists, ds, err, loadargs, trace, agg>>

CallUnload ==
  /\ Quiet
  /\ call' = [op |-> "unload", force |-> "", ans |-> ""]
  /\ pc' = Start("unload")
  /\ bar' = [rk \in Ranks |-> 0]
  /\ UNCHANGED <<size, shape, source, exists, ds, err, loadargs, trace, file, agg>>

Raise(rk, exc) == IF exc = "none" THEN err ELSE [err EXCEPT ![rk] = [exc |-> exc, op |-> call.op]]

Load(rk) ==
  /\ pc[rk] = "load"
  /\ LET res == load(ds[rk], rk, loadargs)
     IN /\ ds' = [ds EXCEPT ![rk] = res.res.d]
        /\ trace' = [trace EXCEPT ![rk] = res.log]
        /\ err' = Raise(rk, res.res.err)
        /\ pc' = [pc EXCEPT ![rk] = IF res.res.err = "none" THEN "idle" ELSE "raised"]
  /\ UNCHANGED <<size, shape, source, exists, call, loadargs, bar, file, agg>>

Save(rk) ==
  /\ pc[rk] = "save"
  /\ LET res == save(ds[rk], rk, call.force, call.ans)
     IN /\ file' = res.file
        /\ exists' = res.exists
        /\ err' = Raise(rk, res.err)
        /\ pc' = [pc EXCEPT ![rk] = IF res.err = "none" THEN "barrier" ELSE "raised"]
  /\ UNCHANGED <<size, shape, source, ds, call, loadargs, trace, bar, agg>>

\* parallel.barrier(): passed once every process of the group waits at it.
Barrier ==
  /\ \A rk \in Ranks : pc[rk] = "barrier"
  /\ pc' = [rk \in Ranks |-> "idle"]
  /\ bar' = [rk \in Ranks |-> bar[rk] + 1]
  /\ UNCHANGED <<size, shape, source, exists, ds, err, call, loadargs, trace, file, agg>>

Unload(rk) ==
  /\ pc[rk] = "unload"
  /\ LET res == unload_data(ds[rk])
     IN /\ ds' = [ds EXCEPT ![rk] = res.d]
        /\ err' = Raise(rk, res.err)
        /\ pc' = [pc EXCEPT ![rk] = IF res.err = "none" THEN "idle" ELSE "raised"]
  /\ UNCHANGED <<size, shape, source, exists, call, loadargs, trace, bar, file, agg>>

Next ==
  \/ \E a \in Callable : CallLoad(a)
  \/ \E a \in SaveArgs : CallSave(a.force, a.ans)
  \/ CallUnload
  \/ \E rk \in Ranks : Load(rk)
  \/ \E rk \in Ranks : Save(rk)
  \/ \E rk \in Ranks : Unload(rk)
  \/ Barrier

Spec == Init /\ [][Next]_vars

\* ---------------------------------------------------------------- feed_data
\* Every process builds a StaticDataSource over the same sources.
InitFeed ==
  /\ size \in 1..MaxWorkers
  /\ shape \in {<<n, FrameDim, FrameDim>> : n \in 1..MaxFrames}
  /\ source = FullSource
  /\ exists = FALSE
  /\ ds = [rk \in Ranks |-> DataScan]
  /\ pc = [rk \in Ranks |-> "idle"]
  /\ err = [rk \in Ranks |-> NoErr]
  /\ call = NoCall
  /\ loadargs = NoArgs
  /\ trace = [rk \in Ranks |-> <<>>]
  /\ bar = [rk \in Ranks |-> 0]
  /\ file = NoFile
  /\ agg = NoAgg

\* The program builds one StaticDataSource.
Constructible == IF agg.kind = "none" THEN SourceLists ELSE {}

\* StaticDataSource(sources, pars_list, recon_labels) on every process.
Construct(srcs, order) ==
  /\ agg.kind = "none"
  /\ LET st == StaticDataSource(srcs, 0, NoScans)
     IN /\ agg' = [kind |-> IF st.err = "none" THEN "static" ELSE "raised",
                   sources |-> srcs, scans |-> st.scans, Nframes |-> st.Nframes,
                   order |-> order, calls |-> 0,
                   avail |-> [rk \in Ranks |-> st.Nframes > 0],
                   it |-> [rk \in Ranks |-> 0],
                   DS |-> [rk \in Ranks |-> [k \in 1..Len(st.scans) |-> DataScan]],
                   out |-> [rk \in Ranks |-> NoBatch],
                   got |-> [rk \in Ranks |-> <<>>]]
        /\ call' = [op |-> "construct", force |-> "", ans |-> ""]
        /\ err' = [rk \in Ranks |-> [exc |-> st.err, op |-> IF st.err = "none" THEN "" ELSE "construct"]]
        /\ pc' = [rk \in Ranks |-> IF st.err = "none" THEN "idle" ELSE "raised"]
  /\ UNCHANGED <<size, shape, source, exists, ds, loadargs, trace, bar, file>>

\* PseudoDynamicDataSource(filelist, unique_scan_labels, patterns_per_call)
\* on every process, line 591: super(DynamicDataSource, self) names a class
\* the module does not define.
ConstructChunked(srcs) ==
  /\ agg.kind = "none"
  /\ agg' = [agg EXCEPT !.kind = "raised", !.sources = srcs]
  /\ call' = [op |-> "construct_chunked", force |-> "", ans |-> ""]
  /\ err' = [rk \in Ranks |-> [exc |-> "NameError", op |-> "construct_chunked"]]
  /\ pc' = [rk \in Ranks |-> "raised"]
  /\ UNCHANGED <<size, shape, source, exists, ds, loadargs, trace, bar, file>>

\* The program calls feed_data() on every process: a new generator, at the
\* top of its loop.
FeedCall ==
  /\ agg.kind = "static" /\ agg.calls < MaxCalls
  /\ \A rk \in Ranks : pc[rk] = "idle"
  /\ agg' = [agg EXCEPT !.calls = @ + 1, !.it = [rk \in Ranks |-> 0]]
  /\ call' = [op |-> "feed", force |-> "", ans |-> ""]
  /\ pc' = [rk \in Ranks |-> "gen"]
  /\ bar' = [rk \in Ranks |-> 0]
  /\ UNCHANGED <<size, shape, source, exists, ds, err, loadargs, trace, file>>

\* feed_data, lines 566-571: the next item of self.scans, DS.load() and
\* DS.as_data_package(), up to the barrier.
FeedLoad(rk) ==
  /\ pc[rk] = "gen" /\ agg.it[rk] < Len(agg.order)
  /\ LET k == agg.order[agg.it[rk] + 1]
         res == load(agg.DS[rk][k], rk, DefaultLoad)
         pkg == as_data_package(res.res.d, agg.scans[k].label, 0, NoInt)
         exc == IF res.res.err # "none" THEN res.res.err ELSE pkg.err
     IN /\ agg' = [agg EXCEPT !.it[rk] = @ + 1, !.DS[rk][k] = res.res.d,
                              !.out[rk] = IF exc = "none" THEN pkg ELSE @]
        /\ err' = Raise(rk, exc)
        /\ pc' = [pc EXCEPT ![rk] = IF exc = "none" THEN "barrier" ELSE "raised"]
  /\ UNCHANGED <<size, shape, source, exists, ds, call, loadargs, trace, bar, file>>

\* feed_data, lines 572-573: parallel.barrier() passed by all processes, and
\* the batch yielded to the caller.
FeedBarrier ==
  /\ call.op = "feed"
  /\ \A rk \in Ranks : pc[rk] = "barrier"
  /\ pc' = [rk \in Ranks |-> "yielded"]
  /\ bar' = [rk \in Ranks |-> bar[rk] + 1]
  /\ agg' = [agg EXCEPT !.got = [rk \in Ranks |-> Append(agg.got[rk], agg.out[rk].label)]]
  /\ UNCHANGED <<size, shape, source, exists, ds, err, call, loadargs, trace, file>>

\* feed_data, line 576: the caller asks for the next batch and the generator
\* goes on with DS.unload_data(), back to the top of its loop.
FeedUnload(rk) ==
  /\ pc[rk] = "yielded"
  /\ LET k == agg.order[agg.it[rk]]
         res == unload_data(agg.DS[rk][k])
     IN /\ agg' = [agg EXCEPT !.DS[rk][k] = res.d]
        /\ err' = Raise(rk, res.err)
        /\ pc' = [pc EXCEPT ![rk] = IF res.err = "none" THEN "gen" ELSE "raised"]
  /\ UNCHANGED <<size, shape, source, exists, ds, call, loadargs, trace, bar, file>>

\* feed_data, line 579: the loop is over, data_available is cleared and the
\* generator ends.
FeedStop(rk) ==
  /\ pc[rk] = "gen" /\ agg.it[rk] = Len(agg.order)
  /\ agg' = [agg EXCEPT !.avail[rk] = FALSE]
  /\ pc' = [pc EXCEPT ![rk] = "idle"]
  /\ UNCHANGED <<size, shape, source, exists, ds, err, call, loadargs, trace, bar, file>>

NextFeed ==
  \/ \E srcs \in Constructible :
       \E order \in Orders(Len(StaticDataSource(srcs, 0, NoScans).scans)) :
         Construct(srcs, order)
  \/ \E srcs \in Constructible : ConstructChunked(srcs)
  \/ FeedCall
  \/ \E rk \in Ranks : FeedLoad(rk)
  \/ FeedBarrier
  \/ \E rk \in Ranks : FeedUnload(rk)
  \/ \E rk \in Ranks : FeedStop(rk)

SpecFeed == InitFeed /\ [][NextFeed]_vars

\* ---------------------------------------------------------------- regions of interest
\* One process loads a region of interest of a one-frame scan of source None.
RoiArgs ==
  {[first |-> 0, last |-> NoInt, roidim |-> d, roictr |-> c,
    MPIsplit |-> [mode |-> "False", list |-> <<>>]] :
     d \in (1..MaxRoi) \X (1..MaxRoi), c \in {<<>>} \cup ((0..MaxCtr) \X (0..MaxCtr))}

RoiCallable == IF loadargs = NoArgs THEN RoiArgs ELSE {loadargs}

InitRoi ==
  /\ size = 1
  /\ shape = <<1, FrameDim, FrameDim>>
  /\ source = [kind |-> "None", data |-> 3, mask |-> 3, fmask |-> 0, dark |-> 3, flat |-> 3]
  /\ exists = FALSE
  /\ ds = [rk \in Ranks |-> DataScan]
  /\ pc = [rk \in Ranks |-> "idle"]
  /\ err = [rk \in Ranks |-> NoErr]
  /\ call = NoCall
  /\ loadargs = NoArgs
  /\ trace = [rk \in Ranks |-> <<>>]
  /\ bar = [rk \in Ranks |-> 0]
  /\ file = NoFile
  /\ agg = NoAgg

NextRoi ==
  \/ \E a \in RoiCallable : CallLoad(a)
  \/ \E rk \in Ranks : Load(rk)

SpecRoi == InitRoi /\ [][NextRoi]_vars

\* ---------------------------------------------------------------- load after load
\* A script that loads the whole scan with load()'s defaults and then calls
\* load again, with any arguments, on the same objects.
ReloadArgs == {a \in LoadArgs(shape[1]) : a.roidim = <<>>}

ReloadCallable ==
  IF loadargs = NoArgs THEN {DefaultLoad}
  ELSE IF loadargs = DefaultLoad THEN ReloadArgs
  ELSE {loadargs}

InitReload ==
  /\ size \in 1..MaxWorkers
  /\ shape = <<MaxFrames, FrameDim, FrameDim>>
  /\ source = FullSource
  /\ exists = FALSE
  /\ ds = [rk \in Ranks |-> DataScan]
  /\ pc = [rk \in Ranks |-> "idle"]
  /\ err = [rk \in Ranks |-> NoErr]
  /\ call = NoCall
  /\ loadargs = NoArgs
  /\ trace = [rk \in Ranks |-> <<>>]
  /\ bar = [rk \in Ranks |-> 0]
  /\ file = NoFile
  /\ agg = NoAgg

NextReload ==
  \/ \E a \in ReloadCallable : CallLoad(a)
  \/ \E rk \in Ranks : Load(rk)

SpecReload == InitReload /\ [][NextReload]_vars

\* ---------------------------------------------------------------- probe_n_load
\* The loader's retry as a function of the store, the key and the slice: one
\* process, a dictionary source whose mask and fmask entries are missing, no
\* array, one frame or a stack, and a slice tuple of up to MaxSlice slices or
\* of a frame list and the two slices of the window.
ProbeSources ==
  {[kind |-> "keyed", data |-> 3, mask |-> m, fmask |-> f, dark |-> 0, flat |-> 0] :
     m \in 0..3, f \in 0..3}

SliceComps == {SliceAll, SliceRange(0, 1)}

SliceTuples(k) == [1..k -> SliceComps]

ProbeSlices ==
  UNION {SliceTuples(k) : k \in 0..MaxSlice}
  \cup {<<SliceList(l)>> \o t : l \in {<<0>>, <<MaxFrames>>}, t \in SliceTuples(2)}

ProbeKeys == {<<"data", "">>, <<"mask", "">>, <<"mask", "fmask">>}

InitProbe ==
  /\ size = 1
  /\ shape \in {<<n, FrameDim, FrameDim>> : n \in 1..MaxFrames}
  /\ source \in ProbeSources
  /\ exists = FALSE
  /\ ds = [rk \in Ranks |-> DataScan]
  /\ pc = [rk \in Ranks |-> "idle"]
  /\ err = [rk \in Ranks |-> NoErr]
  /\ call = NoCall
  /\ loadargs = NoArgs
  /\ trace = [rk \in Ranks |-> <<>>]
  /\ bar = [rk \in Ranks |-> 0]
  /\ file = NoFile
  /\ agg = NoAgg

\* One call probe_n_load(key, slc, altkey) as load makes it: the attempts go
\* to the trace, an exception that leaves the call ends the process.
Probe(key, slc, altkey) ==
  /\ call.op = "init"
  /\ LET p == probe_n_load(source, shape[1], key, slc, altkey, 0)
     IN /\ trace' = [trace EXCEPT ![0] = p.log]
        /\ err' = [err EXCEPT ![0] = [exc |-> p.exc, op |-> "probe"]]
        /\ pc' = [pc EXCEPT ![0] = IF p.exc = "none" THEN "idle" ELSE "raised"]
        /\ ds' = [ds EXCEPT ![0].data = p.val]
  /\ call' = [NoCall EXCEPT !.op = "probe"]
  /\ UNCHANGED <<size, shape, source, exists, loadargs, bar, file, agg>>

NextProbe == \E k \in ProbeKeys, slc \in ProbeSlices : Probe(k[1], slc, k[2])

SpecProbe == InitProbe /\ [][NextProbe]_vars

\* ---------------------------------------------------------------- claims
\* Rank rk has run the load the program called last.
Loaded(rk) ==
  /\ call.op = "load"
  /\ pc[rk] = "idle" \/ (pc[rk] = "raised" /\ err[rk].op = "load")

\* Rank rk has run the save the program called last, to its end.
Saved(rk) ==
  /\ call.op = "save"
  /\ pc[rk] = "idle" \/ (pc[rk] = "raised" /\ err[rk].op = "save")

ValidRange == LastOf(loadargs.last) - loadargs.first > 0

SetOf(list) == {list[k] : k \in 1..Len(list)}

\* Frame i of the stored array `key`, as the region of interest crops it.
StoredFrame(key, i) ==
  [nd |-> 2,
   fr |-> <<IF source.kind = "None"
            THEN (IF key \in {"flat", "mask"} THEN <<"ones", 0>> ELSE <<"zeros", 0>>)
            ELSE <<key, i>>>>,
   r |-> CutWindow(Full, roislice(loadargs.roidim, loadargs.roictr)[1]),
   c |-> CutWindow(Full, roislice(loadargs.roidim, loadargs.roictr)[2])]

\* The indices load's arguments give rank rk.
OwnedBy(rk) ==
  CASE loadargs.MPIsplit.mode = "False" ->
         loadargs.first..(LastOf(loadargs.last) - 1)
    [] loadargs.MPIsplit.mode = "True" -> SetOf(ds[rk].indices)
    [] loadargs.MPIsplit.mode = "list" -> SetOf(loadargs.MPIsplit.list)

\* The processes hold, after an automatic split of the full range, a
\* partition of the frames 0..N-1.
Partitioned ==
  /\ loadargs.MPIsplit.mode = "True" /\ loadargs.first = 0 /\ loadargs.last = NoInt
  /\ loadargs.roidim = <<>>
  /\ \A rk \in Ranks : ds[rk].attrs /\ Len(ds[rk].datalist) = shape[1]
  /\ \A i \in 0..(shape[1] - 1) :
       Cardinality({rk \in Ranks : ds[rk].datalist[i + 1] # None}) = 1

\* C1: once save has run on all of two or more processes whose frames
\* partition 0..N-1, the master's datalist holds frame i in slot i for every
\* i, and every other process's datalist holds exactly the frames it owned.
C1_GatherFillsMaster ==
  (size > 1 /\ source.data = 3 /\ source.mask + source.fmask > 0
     /\ (\A rk \in Ranks : Saved(rk)) /\ (\A rk \in Ranks : SetOf(ds[rk].indices) # {})
     /\ (\A i \in 0..(shape[1] - 1) :
           Cardinality({rk \in Ranks : i \in SetOf(ds[rk].indices)}) = 1)
     /\ loadargs.MPIsplit.mode = "True" /\ loadargs.roidim = <<>>)
  => /\ Len(ds[0].datalist) = shape[1]
     /\ \A i \in 0..(shape[1] - 1) : ds[0].datalist[i + 1] = StoredFrame("data", i)
     /\ \A rk \in Ranks \ {0} : \A i \in 0..(shape[1] - 1) :
          ds[rk].datalist[i + 1] # None <=> i \in SetOf(ds[rk].indices)

\* C2: after an automatic split the index lists of the processes are each
\* contiguous, pairwise disjoint, in rank order, and together exactly the
\* positions 0..Nframes-1 of the identity list (0..N-1 for the full range).
Contiguous(list) == list = range(list[1], list[Len(list)] + 1)

WholeLoad ==
  /\ loadargs.roidim = <<>>
  /\ \/ loadargs.MPIsplit.mode = "False"
     \/ loadargs.MPIsplit.mode = "True" /\ loadargs.first = 0 /\ loadargs.last = NoInt
     \/ loadargs.MPIsplit.mode = "list" /\ Len(loadargs.MPIsplit.list) = shape[1]

C4_RoundTrip ==
  size = 1 =>
    /\ (call.op = "save" /\ pc[0] \in {"barrier", "idle"})
         => file.n = 1 /\ file.data = ds[0].data /\ ds[0].data.nd = 3
    /\ (call.op = "save" /\ pc[0] # "save" /\ call.force = "True"
          /\ WholeLoad /\ ds[0].attrs /\ ds[0].data.nd = 3)
         => pc[0] # "raised"

C4_Witness ==
  /\ size = 1 /\ call.op = "save" /\ pc[0] = "idle" /\ file.n = 1
  /\ source.kind = "keyed" /\ shape[1] > 1 /\ file.data = ds[0].data
  /\ file.data.fr = <<<<"data", 0>>, <<"data", 1>>>>

\* C5: after every load that returns, the four per-frame lists of a process
\* have the same length, the scan's frame count shape[0].
C5_ListsHaveLengthN ==
  \A rk \in Ranks :
    (Loaded(rk) /\ pc[rk] = "idle")
    => /\ Len(ds[rk].datalist) = shape[1]
       /\ Len(ds[rk].masklist) = shape[1]
       /\ Len(ds[rk].flatlist) = shape[1]
       /\ Len(ds[rk].darklist) = shape[1]

\* Rank rk is given at least one frame by load's arguments.
HasWork(rk) ==
  loadargs.MPIsplit.mode = "True" => rk < LastOf(loadargs.last) - loadargs.first

\* C6: for every first >= 0 and last <= N, after load has run on a source
\* holding data and a mask, it has returned, datalist[i] is frame i of the
\* stored data for every index i the process owns, and every other slot is
\* None.
C6_OwnedFramesLoaded ==
  \A rk \in Ranks :
    (Loaded(rk) /\ ValidRange /\ HasWork(rk)
       /\ source.data = 3 /\ source.mask + source.fmask > 0
       /\ (loadargs.MPIsplit.mode = "list" =>
             SetOf(loadargs.MPIsplit.list)
               \subseteq loadargs.first..(LastOf(loadargs.last) - 1)))
    => /\ pc[rk] = "idle"
       /\ \A i \in OwnedBy(rk) : i < Len(ds[rk].datalist)
       /\ \A i \in 0..(Len(ds[rk].datalist) - 1) :
            ds[rk].datalist[i + 1]
              = IF i \in OwnedBy(rk) THEN StoredFrame("data", i) ELSE None

\* The trace records of the mask read of rank rk's last load.
IsMaskKey(e) == e.key \in {"mask", "fmask"}

MaskLog(rk) == SelectSeq(trace[rk], IsMaskKey)

\* C7: when the source holds no "mask", the loader tries "fmask" once, with
\* the slice of the request; it returns the fmask array read with that slice
\* (less the frame component when fmask is a single frame), and when "fmask"
\* is missing too it returns None and raises no key error.
C7_KeyFallback ==
  \A rk \in Ranks :
    (Loaded(rk) /\ trace[rk] # <<>> /\ source.kind = "keyed" /\ source.mask = 0)
    => LET log == MaskLog(rk)
           n == Len(log)
       IN /\ n >= 2
          /\ log[1].key = "mask" /\ log[1].out = "KeyError"
          /\ log[2].key = "fmask" /\ log[2].slc = log[1].slc
          /\ \A k \in 3..n : log[k].key = "fmask" /\ log[k].slc # log[1].slc
                               /\ log[k - 1].out = "IndexError"
          /\ source.fmask = 0 =>
               n = 2 /\ log[2].out = "KeyError" /\ ds[rk].mask = None
                 /\ err[rk].exc # "KeyError"
          /\ source.fmask # 0 =>
               /\ log[n].out = "none"
               /\ ds[rk].mask = Index(Stored(source, shape[1], "fmask"), log[n].slc)
          /\ source.fmask = 3 => n = 2

C7_Witness ==
  \E rk \in Ranks :
    /\ Loaded(rk) /\ pc[rk] = "idle" /\ source.mask = 0 /\ source.fmask = 3
    /\ ds[rk].mask.nd = 3 /\ ds[rk].mask.fr[1][1] = "fmask"

\* C8: when the source holds "mask" as a single 2-D frame, the loader's first
\* attempt, with the three-component slice, is an index error; the second,
\* with the frame component dropped, succeeds; there is no third; and the
\* mask is the 2-D frame cut by the row and column components only.
C8_DimensionFallback ==
  \A rk \in Ranks :
    (Loaded(rk) /\ trace[rk] # <<>> /\ source.kind = "keyed" /\ source.mask = 2)
    => LET log == MaskLog(rk)
       IN /\ Len(log) = 2
          /\ log[1].key = "mask" /\ Len(log[1].slc) = 3 /\ log[1].out = "IndexError"
          /\ log[2].key = "mask" /\ log[2].slc = Tail(log[1].slc) /\ log[2].out = "none"
          /\ ds[rk].mask = [nd |-> 2, fr |-> <<<<"mask", -1>>>>,
                            r |-> CutWindow(Full, log[1].slc[2]),
                            c |-> CutWindow(Full, log[1].slc[3])]

C8_Witness ==
  \E rk \in Ranks :
    /\ Loaded(rk) /\ pc[rk] = "idle" /\ source.mask = 2 /\ loadargs.roidim # <<>>
    /\ ds[rk].mask.nd = 2 /\ ds[rk].mask.r # Full /\ Len(MaskLog(rk)) = 2

\* C9: on a source without "data", a load that reaches the read ends with the
\* missing key raised as the error.
C9_MissingDataFatal ==
  \A rk \in Ranks :
    (Loaded(rk) /\ ValidRange /\ HasWork(rk) /\ source.kind = "keyed" /\ source.data = 0)
    => pc[rk] = "raised" /\ err[rk].exc = "KeyError"

\* C10: on a source holding "data" and none of "mask", "fmask", "dark",
\* "flat", a load of the full range returns with mask, dark and flat None,
\* datalist filled for every owned frame and the other lists all None.
C10_OptionalArraysAbsent ==
  \A rk \in Ranks :
    (Loaded(rk) /\ HasWork(rk) /\ loadargs.first = 0 /\ loadargs.last = NoInt
       /\ source.kind = "keyed" /\ source.data = 3
       /\ source.mask = 0 /\ source.fmask = 0 /\ source.dark = 0 /\ source.flat = 0)
    => /\ pc[rk] = "idle"
       /\ ds[rk].mask = None /\ ds[rk].dark = None /\ ds[rk].flat = None
       /\ \A i \in OwnedBy(rk) : ds[rk].datalist[i + 1] = StoredFrame("data", i)
       /\ \A i \in 1..Len(ds[rk].masklist) :
            ds[rk].masklist[i] = None /\ ds[rk].darklist[i] = None
              /\ ds[rk].flatlist[i] = None

\* C11: on a single process whose loaded array has the declared shape, a save
\* step writes when the file does not exist or force_overwrite is True, writes
\* when the caller is to be asked (None) and accepts, and otherwise (False,
\* or None and the caller declines) raises and writes nothing.
C11_OverwritePolicy ==
  [][(size = 1 /\ pc[0] = "save" /\ pc'[0] # "save"
        /\ SaveChecks(ds[0]) = "none" /\ Shape(ds[0].data) = shape)
     => IF exists /\ (call.force = "False" \/ (call.force = "None" /\ call.ans = "N"))
        THEN pc'[0] = "raised" /\ file' = file
        ELSE pc'[0] = "barrier" /\ file'.n = 1 /\ file'.data = ds[0].data]_vars

\* ---------------------------------------------------------------- claims on feed_data
\* Process rk holds the frames of item k of the StaticDataSource.
InMemory(rk, k) == agg.DS[rk][k].attrs /\ agg.DS[rk][k].data # None

Held(rk) == {k \in 1..Len(agg.scans) : InMemory(rk, k)}

\* C12: a StaticDataSource, once built, has either raised or holds one
\* DataScan per source under pairwise distinct labels: no source's DataScan
\* was replaced by a later one with the same label.
C12_LabelsDistinct ==
  agg.kind # "none" =>
    \/ agg.kind = "raised"
    \/ /\ Len(agg.scans) = Len(agg.sources)
       /\ \A i \in 1..Len(agg.sources) : \E k \in 1..Len(agg.scans) : agg.scans[k].src = i - 1
       /\ \A k, l \in 1..Len(agg.scans) : k # l => agg.scans[k].label # agg.scans[l].label

\* C13: when the first generator of feed_data has ended on a process, its
\* caller has received one batch per source, the i-th batch carrying the label
\* of the DataScan of the i-th source.
C13_OneBatchPerSourceInOrder ==
  \A rk \in Ranks :
    (agg.calls = 1 /\ pc[rk] = "idle")
    => /\ Len(agg.got[rk]) = Len(agg.sources)
       /\ \A i \in 1..Len(agg.sources) :
            \E k \in 1..Len(agg.scans) :
              agg.scans[k].src = i - 1 /\ agg.got[rk][i] = agg.scans[k].label

\* C14: through the first generator of feed_data a process holds the frames
\* of at most one scan at any time; every batch received was preceded by one
\* barrier; the scan of the batch is the one in memory while the batch is
\* out and none is in memory once the generator is back at the top of its
\* loop; data_available is true until the generator has ended and false, with
\* no scan in memory, after it.
C14_OneScanInMemory ==
  \A rk \in Ranks :
    (agg.kind = "static" /\ agg.calls <= 1)
    => /\ Cardinality(Held(rk)) <= 1
       /\ pc[rk] # "raised" => Len(agg.got[rk]) = bar[rk]
       /\ pc[rk] \in {"barrier", "yielded"} => Held(rk) = {agg.order[agg.it[rk]]}
       /\ pc[rk] = "yielded" =>
            agg.got[rk][Len(agg.got[rk])] = agg.scans[agg.order[agg.it[rk]]].label
       /\ pc[rk] \in {"gen", "idle"} => Held(rk) = {}
       /\ (agg.calls = 0 \/ pc[rk] \in {"gen", "barrier", "yielded"}) => agg.avail[rk]
       /\ (agg.calls = 1 /\ pc[rk] = "idle") =>
            ~agg.avail[rk] /\ Len(agg.got[rk]) = Len(agg.scans)

C14_Witness ==
  /\ size > 1 /\ agg.calls = 1 /\ Len(agg.scans) > 1
  /\ \A rk \in Ranks : pc[rk] = "idle" /\ ~agg.avail[rk] /\ Len(agg.got[rk]) = 2

\* C15: a second call of feed_data on a StaticDataSource whose first
\* generator has ended delivers no batch and loads no scan, and
\* data_available stays false.
C15_NotRestartable ==
  \A rk \in Ranks :
    agg.calls >= 2
    => /\ pc[rk] \notin {"barrier", "yielded"}
       /\ Held(rk) = {}
       /\ ~agg.avail[rk]

\* C16: the batch a process makes for a scan has one entry per frame the
\* process owns, in the order of its indices, each with the frame's data and
\* mask, its index and its position; no entry has data None.
C16_BatchIsOwnedFrames ==
  \A rk \in Ranks :
    pc[rk] \in {"barrier", "yielded"}
    => /\ Len(agg.out[rk].iterable)
            = Len(agg.DS[rk][agg.order[agg.it[rk]]].indices)
       /\ \A j \in 1..Len(agg.out[rk].iterable) :
            /\ agg.out[rk].iterable[j].data # None
            /\ j <= Len(agg.DS[rk][agg.order[agg.it[rk]]].indices)
                 => agg.out[rk].iterable[j]
                      = [data |-> StoredFrame("data", agg.DS[rk][agg.order[agg.it[rk]]].indices[j]),
                         mask |-> StoredFrame("mask", agg.DS[rk][agg.order[agg.it[rk]]].indices[j]),
                         index |-> agg.DS[rk][agg.order[agg.it[rk]]].indices[j],
                         position |-> <<"position", agg.DS[rk][agg.order[agg.it[rk]]].indices[j]>>]

\* C17: a PseudoDynamicDataSource is built over its sources without error
\* and is available on every process, as its delivery of successive windows
\* of patterns_per_call frames, available until the last window, requires.
C17_ChunkedSourceIsBuilt ==
  call.op = "construct_chunked"
  => \A rk \in Ranks : pc[rk] # "raised" /\ err[rk].exc = "none" /\ agg.avail[rk]

\* ---------------------------------------------------------------- claims on regions of interest
\* x is the least integer not below num / 2.
IsCeilOfHalf(x, num) == 2 * x >= num /\ 2 * (x - 1) < num

\* The slice tuple of load's first read.
FirstSlice(rk) == trace[rk][1].slc

RoiCentre == IF loadargs.roictr = <<>> THEN <<shape[2] \div 2, shape[3] \div 2>>
             ELSE loadargs.roictr

\* C18: a load with a region of interest reads, on each axis, the slice
\* [ceil(centre - size/2), ceil(centre + size/2)), the centre being
\* floor(dim/2) when none is given; the slice is size wide, size 4 at centre 5
\* is [3, 7) and size 3 at centre 5 is [4, 7); asize is the size.
C18_RoiWindow ==
  \A rk \in Ranks :
    (Loaded(rk) /\ loadargs.roidim # <<>> /\ trace[rk] # <<>>)
    => /\ Len(FirstSlice(rk)) = 3
       /\ ds[rk].asize = loadargs.roidim
       /\ \A ax \in 1..2 :
            /\ FirstSlice(rk)[ax + 1].kind = "range"
            /\ IsCeilOfHalf(FirstSlice(rk)[ax + 1].a, 2 * RoiCentre[ax] - loadargs.roidim[ax])
            /\ IsCeilOfHalf(FirstSlice(rk)[ax + 1].b, 2 * RoiCentre[ax] + loadargs.roidim[ax])
            /\ FirstSlice(rk)[ax + 1].b - FirstSlice(rk)[ax + 1].a = loadargs.roidim[ax]
            /\ (RoiCentre[ax] = 5 /\ loadargs.roidim[ax] = 4)
                 => FirstSlice(rk)[ax + 1].a = 3 /\ FirstSlice(rk)[ax + 1].b = 7
            /\ (RoiCentre[ax] = 5 /\ loadargs.roidim[ax] = 3)
                 => FirstSlice(rk)[ax + 1].a = 4 /\ FirstSlice(rk)[ax + 1].b = 7

C18_Witness ==
  /\ Loaded(0) /\ trace[0] # <<>>
  /\ loadargs.roidim = <<4, 3>> /\ loadargs.roictr = <<5, 5>>
  /\ FirstSlice(0)[2].a = 3 /\ FirstSlice(0)[3].a = 4

\* ---------------------------------------------------------------- claims on save
\* save has been called on the master and the master has left it.
MasterLeftSave ==
  /\ call.op = "save" /\ pc[0] \in {"barrier", "idle", "raised"}
  /\ pc[0] = "raised" => err[0].op = "save"

\* The shape of the array the master is to write: the stack of its per-frame
\* list under MPI, the loaded array otherwise.
PersistShape ==
  IF size > 1
  THEN <<Len(ds[0].datalist)>>
         \o (IF ds[0].datalist = <<>> \/ ds[0].datalist[1] = None THEN <<>>
             ELSE Shape(ds[0].datalist[1]))
  ELSE Shape(ds[0].data)

\* C19: when the master holds an array whose shape to write differs from
\* scan_info.shape, save on the master raises and writes nothing.
C19_ShapeMismatchFatal ==
  (MasterLeftSave /\ ds[0].attrs /\ ds[0].data # None /\ PersistShape # shape)
  => pc[0] = "raised" /\ file.n = 0

C19_Witness ==
  /\ size = 1 /\ MasterLeftSave /\ SaveChecks(ds[0]) = "none"
  /\ Shape(ds[0].data) # shape /\ Shape(ds[0].data)[1] = shape[1]
  /\ pc[0] = "raised" /\ err[0].exc = "RuntimeError" /\ file.n = 0

\* C20: with two or more processes that each loaded their share, fewer than
\* all frames, of the full range by an automatic split, a save called on all
\* of them raises on none (all agree on the frame count), and the master
\* writes an array of shape[0] frames.
C20_SaveAfterAutoPartition ==
  (size > 1 /\ call.op = "save" /\ (\A rk \in Ranks : pc[rk] # "save")
     /\ loadargs.MPIsplit.mode = "True" /\ loadargs.first = 0 /\ loadargs.last = NoInt
     /\ loadargs.roidim = <<>> /\ call.force = "True"
     /\ \A rk \in Ranks : /\ ds[rk].attrs /\ ds[rk].data # None
                          /\ Len(ds[rk].indices) < shape[1]
                          /\ Len(ds[rk].datalist) = shape[1]
                          /\ pc[rk] = "raised" => err[rk].op = "save")
  => /\ \A rk \in Ranks : pc[rk] # "raised"
     /\ file.n = 1 /\ file.data.nd = 3 /\ Len(file.data.fr) = shape[1]

\* C21: for every key and every slice of k components the dimension-dropping
\* retry ends after at most k retries: every retry after an index or type
\* error uses a strictly shorter slice (never an unchanged one), and the call
\* either returns or, the slice exhausted and the store still failing, raises
\* at once.
SliceRetries(log) ==
  {j \in 1..(Len(log) - 1) : log[j].out \in {"IndexError", "TypeError"}}

C21_RetryTerminates ==
  call.op = "probe" =>
    LET log == trace[0]
    IN /\ \A j \in SliceRetries(log) : Len(log[j + 1].slc) < Len(log[j].slc)
       /\ Cardinality(SliceRetries(log)) <= Len(log[1].slc)
       /\ err[0].exc # "none" => log[Len(log)].slc = <<>>

\* The k-th frame (0-based) of a stack, a single frame as it is.
PerFrame(a, k) == IF a.nd = 3 THEN FrameOf(a, k) ELSE a

\* C22: after a load that returns, for every index i the process owns, at
\* position k of its indices, masklist[i], flatlist[i] and darklist[i] are the
\* k-th frame of the loaded mask, flat and dark when that array is a stack,
\* and the one shared frame when it is 2-D.
C22_PerFrameViews ==
  \A rk \in Ranks :
    (Loaded(rk) /\ pc[rk] = "idle")
    => \A k \in 1..Len(ds[rk].indices) :
         LET i == ds[rk].indices[k]
         IN /\ ds[rk].masklist[i + 1] = PerFrame(ds[rk].mask, k - 1)
            /\ ds[rk].flatlist[i + 1] = PerFrame(ds[rk].flat, k - 1)
            /\ ds[rk].darklist[i + 1] = PerFrame(ds[rk].dark, k - 1)

\* C23: a PseudoDynamicDataSource over several scans is built on every
\* process with the aggregate total of its scans' frames, and from there
\* delivers every frame once: nothing delivered yet, the delivered count (0)
\* is below the total and the source is available.
C23_ChunkedOverSeveralScans ==
  (call.op = "construct_chunked" /\ Len(agg.sources) > 1)
  => \A rk \in Ranks :
       /\ err[rk].exc = "none"
       /\ Len(agg.scans) = Len(agg.sources)
       /\ agg.Nframes = Len(agg.sources) * shape[1]
       /\ Len(agg.got[rk]) = 0
       /\ agg.avail[rk] = (0 < agg.Nframes)

\* C24: a StaticDataSource, once built, holds one DataScan per source, its
\* Nframes is the sum of shape[0] of the DataScans it holds, none of them has
\* loaded its frames, and data_available is true exactly when Nframes > 0.
C24_TotalOfHeldScans ==
  agg.kind = "static" /\ call.op = "construct"
  => /\ Len(agg.scans) = Len(agg.sources)
     /\ agg.Nframes = Len(agg.scans) * shape[1]
     /\ \A rk \in Ranks :
          /\ \A k \in 1..Len(agg.scans) : agg.DS[rk][k] = DataScan
          /\ agg.avail[rk] = (agg.Nframes > 0)

C27_IdleWorkerLoads ==
  \A rk \in Ranks :
    (Loaded(rk) /\ ValidRange /\ loadargs.MPIsplit.mode = "True"
       /\ rk >= LastOf(loadargs.last) - loadargs.first)
    => /\ pc[rk] = "idle" /\ err[rk].exc = "none"
       /\ ds[rk].datalist = Absent(LastOf(loadargs.last) - loadargs.first)
       /\ ds[rk].masklist = Absent(LastOf(loadargs.last) - loadargs.first)
       /\ ds[rk].flatlist = Absent(LastOf(loadargs.last) - loadargs.first)
       /\ ds[rk].darklist = Absent(LastOf(loadargs.last) - loadargs.first)
====
